---------------------------- MODULE Spec2Model ----------------------------
(***************************************************************************)
(* A model of sysmon (src/src/sysmon): the network sampling engine and the *)
(* uplink selector (network.py), the formatters (collectors.py,            *)
(* network.py), the CPU health classifier (analysis.py) and the refresh    *)
(* loop of main (main.py).                                                 *)
(*                                                                         *)
(* Python floats are modelled as exact rationals [n |-> num, d |-> den]    *)
(* with d > 0; rounding error of IEEE arithmetic is not modelled.  Python  *)
(* strings that are compared or prefix-matched (interface names) are       *)
(* sequences of one-character strings ordered by code point.  An absent    *)
(* value (None) is the empty set and a present value x is {x}.             *)
(***************************************************************************)
EXTENDS Integers, Sequences, FiniteSets, TLC

VARIABLES
    \* ---- network sampling (network.py) ----
    npc,            \* position of the sampling run: start, sleeping, sampled, done
    os_present,     \* names psutil.net_io_counters(pernic=True) reports right now
    os_bytes,       \* name -> [recv, sent]: the OS's cumulative byte counters
    os_link,        \* names psutil.net_if_stats() reports right now -> isup
    events,         \* number of OS events so far (bounded by MaxEvents)
    req_seconds,    \* collect_network_rates' argument, in tenths of a second
    stats1,         \* first counter reading (a dict: name -> [recv, sent])
    stats2,         \* second counter reading
    ifstats,        \* the net_if_stats() reading (a dict: name -> isup)
    net,            \* None or the NetworkRates returned
    dr,             \* what default_route_interface() returned
    uplink,         \* what likely_uplink returned
    uplink_called,  \* likely_uplink has returned
    \* ---- formatters (collectors.py, network.py) ----
    fmt_arg,        \* the argument under test: an elapsed time or a byte value
    out_uptime,     \* None or what fmt_uptime returned
    out_bytes,      \* None or what fmt_bytes returned
    out_rate,       \* None or what fmt_rate returned
    \* ---- CPU health (analysis.py, build_snapshot) ----
    cpu_in,         \* what the collectors returned: percent, loadavg_1m, logical
    load_norm_1m,   \* Snapshot.load_norm_1m
    cpu_health,     \* None or Snapshot.cpu_health
    \* ---- the refresh loop (main.py: main); times in ticks of 0.5 s ----
    pc,             \* position of main: top, build, clear, render, elapsed,
                    \*   sleep, handler, handler_exit, exited
    now,            \* time.time()
    args_interval,  \* args.interval
    interval,       \* max(0.0, args.interval)
    no_clear,       \* args.no_clear
    t0,             \* t0 of the current cycle
    elapsed,        \* None or time.time() - t0
    sleep_for,      \* None or the argument of time.sleep
    apfs_ok,        \* the snapshot's apfs has total_bytes and free_bytes
    interrupted_at, \* None or the position at which KeyboardInterrupt was raised
    notice,         \* "Exiting." has been printed
    exit_code,      \* None or the exit status of the process
    cycle,          \* cycles begun, builds finished, renders begun and
                    \*   finished, sleeps computed
    stamps,         \* when the current cycle's build and render finished
    prev,           \* None or the previous cycle's t0 and stamps
    \* ---- unavailable metrics (build_snapshot, render_snapshot) ----
    probes,         \* None or what the collaborators answered
    snap,           \* None or the Snapshot fields built from the answers
    shown           \* None or what render_snapshot printed of them

netVars == <<npc, os_present, os_bytes, os_link, events, req_seconds,
             stats1, stats2, ifstats, net, dr, uplink, uplink_called>>

fmtVars == <<fmt_arg, out_uptime, out_bytes, out_rate>>

healthVars == <<cpu_in, load_norm_1m, cpu_health>>

mainVars == <<pc, now, args_interval, interval, no_clear, t0, elapsed, sleep_for,
              apfs_ok, interrupted_at, notice, exit_code, cycle, stamps, prev>>

snapVars == <<probes, snap, shown>>

vars == <<netVars, fmtVars, healthVars, mainVars, snapVars>>

\* What each part of the model leaves alone.
nonNetVars == <<fmtVars, healthVars, mainVars, snapVars>>
nonFmtVars == <<netVars, healthVars, mainVars, snapVars>>
nonHealthVars == <<netVars, fmtVars, mainVars, snapVars>>
nonMainVars == <<netVars, fmtVars, healthVars, snapVars>>
nonSnapVars == <<netVars, fmtVars, healthVars, mainVars>>

None == {}
Some(x) == {x}
TheVal(o) == CHOOSE x \in o : TRUE

-----------------------------------------------------------------------------
(* Rationals standing for Python floats.                                   *)

Rat(num, den) == [n |-> num, d |-> den]
RZero == Rat(0, 1)
RAdd(a, b) == Rat(a.n * b.d + b.n * a.d, a.d * b.d)
RNeg(a) == Rat(-a.n, a.d)
RLess(a, b) == a.n * b.d < b.n * a.d
REq(a, b) == a.n * b.d = b.n * a.d
RLeq(a, b) == a.n * b.d <= b.n * a.d

-----------------------------------------------------------------------------
(* Strings as sequences of characters.                                     *)

Ord(c) ==
    CASE c = "0" -> 48  [] c = "1" -> 49  [] c = "9" -> 57
      [] c = "a" -> 97  [] c = "b" -> 98  [] c = "d" -> 100 [] c = "e" -> 101
      [] c = "g" -> 103 [] c = "i" -> 105 [] c = "l" -> 108 [] c = "n" -> 110
      [] c = "o" -> 111 [] c = "p" -> 112 [] c = "r" -> 114 [] c = "t" -> 116
      [] c = "u" -> 117 [] c = "w" -> 119

RECURSIVE StrLess(_, _)
\* Python's str.__lt__: lexicographic by code point, a proper prefix is smaller.
StrLess(a, b) ==
    IF b = <<>> THEN FALSE
    ELSE IF a = <<>> THEN TRUE
    ELSE IF Ord(Head(a)) # Ord(Head(b)) THEN Ord(Head(a)) < Ord(Head(b))
    ELSE StrLess(Tail(a), Tail(b))

\* str.startswith(p) for one prefix p
StartsWith(s, p) == Len(s) >= Len(p) /\ SubSeq(s, 1, Len(p)) = p

lo0   == <<"l", "o", "0">>
en0   == <<"e", "n", "0">>
en1   == <<"e", "n", "1">>
awdl0 == <<"a", "w", "d", "l", "0">>
utun9 == <<"u", "t", "u", "n", "9">>

\* The interfaces the modelled host can have.
IfNames == {lo0, en0, en1, awdl0}
\* What the default-route probe can answer: nothing, or a name (utun9 is a
\* name no counter reading ever holds).
RouteAnswers == {None} \cup {Some(nm) : nm \in IfNames \cup {utun9}}
\* The sample_seconds arguments tried, in tenths of a second.
SampleChoices == {-5, 0, 5}
\* How many OS events (traffic, link change, interface (dis)appearing,
\* counter reset) happen before the second reading.
MaxEvents == 2

-----------------------------------------------------------------------------
(* network.py: collect_network_rates                                       *)

\* if sample_seconds <= 0: sample_seconds = 0.1   (tenths of a second)
ClampSample(s) == IF s <= 0 THEN 1 ELSE s

\* Rate with a negative difference clamped to zero.
RateClamped(b2, b1, s) == Rat(10 * (IF b2 < b1 THEN 0 ELSE b2 - b1), s)

\* (s2.bytes - s1.bytes) / sample_seconds, bytes per second
Rate(b2, b1, s) == Rat(10 * (b2 - b1), s)

\* st = ifstats.get(name); is_up = bool(st.isup) if st is not None else False
IsUp(st, name) == IF name \in DOMAIN st THEN st[name] ELSE FALSE

\* The IfaceRate built for one name present in both readings.
\* speed_mbps plays no part in any rate, total or ordering and is left out.
MakeIface(name, s1, s2, st, s) ==
    [name     |-> name,
     is_up    |-> IsUp(st, name),
     rx_bps   |-> Rate(s2[name].recv, s1[name].recv, s),
     tx_bps   |-> Rate(s2[name].sent, s1[name].sent, s),
     rx_bytes |-> s2[name].recv,
     tx_bytes |-> s2[name].sent]

\* Totals that count every interface.
CountsAlways(i) == TRUE

\* if is_up: total_rx += rx_bps; total_tx += tx_bps
CountsInTotals(i) == i.is_up

RECURSIVE CollectLoop(_, _, _, _, _, _)
\* for name, s2 in stats2.items(): ...   `order` is the dict's iteration order,
\* acc the ifaces list and the two totals so far.
CollectLoop(order, s1, s2, st, s, acc) ==
    IF order = <<>> THEN acc
    ELSE LET name == Head(order) IN
         IF name \notin DOMAIN s1
         THEN CollectLoop(Tail(order), s1, s2, st, s, acc)
         ELSE LET i == MakeIface(name, s1, s2, st, s) IN
              CollectLoop(Tail(order), s1, s2, st, s,
                  [ifaces   |-> Append(acc.ifaces, i),
                   total_rx |-> IF CountsInTotals(i)
                                THEN RAdd(acc.total_rx, i.rx_bps) ELSE acc.total_rx,
                   total_tx |-> IF CountsInTotals(i)
                                THEN RAdd(acc.total_tx, i.tx_bps) ELSE acc.total_tx])

\* x.rx_bps + x.tx_bps
Traffic(i) == RAdd(i.rx_bps, i.tx_bps)

\* The sort key without its third component.
SortKeyNoName(a, b) ==
    IF a.is_up # b.is_up THEN a.is_up
    ELSE RLess(RNeg(RAdd(a.rx_bps, a.tx_bps)), RNeg(RAdd(b.rx_bps, b.tx_bps)))

\* key=lambda x: (not x.is_up, -(x.rx_bps + x.tx_bps), x.name): a's key < b's key
SortKeyLess(a, b) ==
    IF a.is_up # b.is_up THEN a.is_up
    ELSE IF ~REq(Traffic(a), Traffic(b)) THEN RLess(RNeg(Traffic(a)), RNeg(Traffic(b)))
    ELSE StrLess(a.name, b.name)

RECURSIVE InsertSorted(_, _)
\* x goes behind every element whose key is not greater than x's (stable).
InsertSorted(sorted, x) ==
    IF sorted = <<>> THEN <<x>>
    ELSE IF SortKeyLess(x, Head(sorted)) THEN <<x>> \o sorted
    ELSE <<Head(sorted)>> \o InsertSorted(Tail(sorted), x)

RECURSIVE SortIfaces(_)
\* list.sort(key=...): a stable sort
SortIfaces(l) ==
    IF l = <<>> THEN <<>>
    ELSE InsertSorted(SortIfaces(SubSeq(l, 1, Len(l) - 1)), l[Len(l)])

RECURSIVE Orders(_)
\* The orders in which a dict with key set S can iterate.
Orders(S) ==
    IF S = {} THEN {<<>>}
    ELSE UNION {{<<x>> \o o : o \in Orders(S \ {x})} : x \in S}

\* What psutil.net_io_counters(pernic=True) returns now.
ReadCounters == [nm \in os_present |-> os_bytes[nm]]

\* collect_network_rates up to time.sleep: clamp, first reading, net_if_stats
CollectFirst(s) ==
    /\ npc = "start"
    /\ req_seconds' = Some(s)
    /\ stats1' = ReadCounters
    /\ ifstats' = os_link
    /\ npc' = "sleeping"
    /\ UNCHANGED <<os_present, os_bytes, os_link, events, stats2, net, dr,
                   uplink, uplink_called, nonNetVars>>

\* collect_network_rates from the second reading to the return
CollectSecond(order) ==
    /\ npc = "sleeping"
    /\ LET s   == ClampSample(TheVal(req_seconds))
           s2  == ReadCounters
           acc == CollectLoop(order, stats1, s2, ifstats, s,
                      [ifaces |-> <<>>, total_rx |-> RZero, total_tx |-> RZero])
       IN /\ stats2' = s2
          /\ net' = Some([sample_seconds |-> s,
                          total_rx_bps   |-> acc.total_rx,
                          total_tx_bps   |-> acc.total_tx,
                          ifaces         |-> SortIfaces(acc.ifaces)])
    /\ npc' = "sampled"
    /\ UNCHANGED <<os_present, os_bytes, os_link, events, req_seconds, stats1,
                   ifstats, dr, uplink, uplink_called, nonNetVars>>

-----------------------------------------------------------------------------
(* The operating system between and before the readings.                   *)

\* The code's results depend on the OS only through the two counter readings
\* and the one interface-stats reading: the interface-stats table changes
\* before it is read, counters are compared between the readings, so traffic
\* and resets are placed between them.
OsRunning == npc \in {"start", "sleeping"} /\ events < MaxEvents

\* An interface receives or sends: its cumulative counter grows.
OsTraffic(nm, recv) ==
    /\ OsRunning
    /\ npc = "sleeping"
    /\ os_bytes' = [os_bytes EXCEPT ![nm] =
                       IF recv THEN [@ EXCEPT !.recv = @ + 1]
                               ELSE [@ EXCEPT !.sent = @ + 1]]
    /\ events' = events + 1
    /\ UNCHANGED <<npc, os_present, os_link, req_seconds, stats1, stats2,
                   ifstats, net, dr, uplink, uplink_called, nonNetVars>>

\* The counters of an interface start again from zero.
OsCounterReset(nm) ==
    /\ OsRunning
    /\ npc = "sleeping"
    /\ os_bytes[nm] # [recv |-> 0, sent |-> 0]
    /\ os_bytes' = [os_bytes EXCEPT ![nm] = [recv |-> 0, sent |-> 0]]
    /\ events' = events + 1
    /\ UNCHANGED <<npc, os_present, os_link, req_seconds, stats1, stats2,
                   ifstats, net, dr, uplink, uplink_called, nonNetVars>>

\* A link goes up or down.
OsLinkChange(nm) ==
    /\ OsRunning
    /\ nm \in DOMAIN os_link
    /\ os_link' = [os_link EXCEPT ![nm] = ~@]
    /\ events' = events + 1
    /\ UNCHANGED <<npc, os_present, os_bytes, req_seconds, stats1, stats2,
                   ifstats, net, dr, uplink, uplink_called, nonNetVars>>

\* An interface appears in or disappears from the counter table.
OsIfaceToggle(nm) ==
    /\ OsRunning
    /\ os_present' = IF nm \in os_present THEN os_present \ {nm}
                                          ELSE os_present \cup {nm}
    /\ events' = events + 1
    /\ UNCHANGED <<npc, os_bytes, os_link, req_seconds, stats1, stats2,
                   ifstats, net, dr, uplink, uplink_called, nonNetVars>>

\* An interface appears in or disappears from the interface-stats table.
OsIfstatsToggle(nm) ==
    /\ OsRunning
    /\ npc = "start"
    /\ os_link' = IF nm \in DOMAIN os_link
                  THEN [x \in DOMAIN os_link \ {nm} |-> os_link[x]]
                  ELSE [x \in DOMAIN os_link \cup {nm} |->
                           IF x = nm THEN FALSE ELSE os_link[x]]
    /\ events' = events + 1
    /\ UNCHANGED <<npc, os_present, os_bytes, req_seconds, stats1, stats2,
                   ifstats, net, dr, uplink, uplink_called, nonNetVars>>

-----------------------------------------------------------------------------
(* network.py: likely_uplink                                               *)

exclude_names == {lo0}
exclude_prefixes ==
    {<<"a", "w", "d", "l">>, <<"b", "r", "i", "d", "g", "e">>,
     <<"l", "l", "w">>, <<"a", "p">>}

\* i.is_up and i.name not in exclude_names and not i.name.startswith(exclude_prefixes)
IsCandidate(i) ==
    /\ i.is_up
    /\ i.name \notin exclude_names
    /\ ~ \E p \in exclude_prefixes : StartsWith(i.name, p)

RECURSIVE MaxFromLast(_, _)
\* A maximum that lets a later equal key replace the running best.
MaxFromLast(best, rest) ==
    IF rest = <<>> THEN best
    ELSE IF RLeq(RAdd(best.rx_bps, best.tx_bps), RAdd(Head(rest).rx_bps, Head(rest).tx_bps))
         THEN MaxFromLast(Head(rest), Tail(rest))
         ELSE MaxFromLast(best, Tail(rest))

RECURSIVE MaxFrom(_, _)
\* max(): the running best is replaced only by a strictly greater key, so the
\* first of several maximal elements is returned.
MaxFrom(best, rest) ==
    IF rest = <<>> THEN best
    ELSE IF RLess(Traffic(best), Traffic(Head(rest)))
         THEN MaxFrom(Head(rest), Tail(rest))
         ELSE MaxFrom(best, Tail(rest))

\* max(candidates, key=lambda i: i.rx_bps + i.tx_bps)
MaxByTraffic(cands) == MaxFrom(Head(cands), Tail(cands))

\* A default-route lookup that accepts the interface only when it is up.
RouteMatchUpOnly(ifs, d) ==
    IF d = None THEN None
    ELSE LET hits == {k \in 1..Len(ifs) : ifs[k].name = TheVal(d) /\ ifs[k].is_up} IN
         IF hits = {} THEN None
         ELSE Some(ifs[CHOOSE k \in hits : \A m \in hits : k <= m])

\* The default-route lookup: for i in ifaces: if i.name == dr: return i
RouteMatch(ifs, d) ==
    IF d = None THEN None
    ELSE LET hits == {k \in 1..Len(ifs) : ifs[k].name = TheVal(d)} IN
         IF hits = {} THEN None
         ELSE Some(ifs[CHOOSE k \in hits : \A m \in hits : k <= m])

likely_uplink(ifs, d) ==
    IF RouteMatch(ifs, d) # None THEN RouteMatch(ifs, d)
    ELSE LET candidates == SelectSeq(ifs, IsCandidate) IN
         IF candidates = <<>> THEN None
         ELSE Some(MaxByTraffic(candidates))

\* uplink = likely_uplink(net.ifaces), the route probe answering d
LikelyUplink(d) ==
    /\ npc = "sampled"
    /\ dr' = d
    /\ uplink' = likely_uplink(TheVal(net).ifaces, d)
    /\ uplink_called' = TRUE
    /\ npc' = "done"
    /\ UNCHANGED <<os_present, os_bytes, os_link, events, req_seconds, stats1,
                   stats2, ifstats, net, nonNetVars>>

-----------------------------------------------------------------------------
\* The network path before collect_network_rates is called (npc = "start") or
\* in a run that does not exercise it (npc = "off").
NetAt(at) ==
    /\ npc = at
    /\ os_present = IfNames
    /\ os_bytes = [nm \in IfNames |-> [recv |-> 1, sent |-> 1]]
    /\ os_link = [nm \in IfNames |-> TRUE]
    /\ events = 0
    /\ req_seconds = None
    /\ stats1 = <<>>
    /\ stats2 = <<>>
    /\ ifstats = <<>>
    /\ net = None
    /\ dr = None
    /\ uplink = None
    /\ uplink_called = FALSE

\* No formatter is under test.
FmtOff ==
    /\ fmt_arg = None
    /\ out_uptime = None
    /\ out_bytes = None
    /\ out_rate = None

\* No CPU sample is under test.
HealthOff ==
    /\ cpu_in = None
    /\ load_norm_1m = None
    /\ cpu_health = None

NoCycle == [begun |-> 0, built |-> 0, render_begun |-> 0, rendered |-> 0, sleeps |-> 0]
NoStamps == [built_at |-> None, rendered_at |-> None]

\* main is not running.
MainOff ==
    /\ pc = "off"
    /\ now = 0
    /\ args_interval = 0
    /\ interval = 0
    /\ no_clear = FALSE
    /\ t0 = 0
    /\ elapsed = None
    /\ sleep_for = None
    /\ apfs_ok = FALSE
    /\ interrupted_at = None
    /\ notice = FALSE
    /\ exit_code = None
    /\ cycle = NoCycle
    /\ stamps = NoStamps
    /\ prev = None

\* No snapshot is followed from its probes to its rendering.
SnapOff ==
    /\ probes = None
    /\ snap = None
    /\ shown = None

InitNet == NetAt("start") /\ FmtOff /\ HealthOff /\ MainOff /\ SnapOff

NextNet ==
    \/ \E s \in SampleChoices : CollectFirst(s)
    \/ \E order \in Orders(os_present) : CollectSecond(order)
    \/ \E nm \in IfNames, recv \in BOOLEAN : OsTraffic(nm, recv)
    \/ \E nm \in IfNames : OsCounterReset(nm)
    \/ \E nm \in IfNames : OsLinkChange(nm)
    \/ \E nm \in IfNames : OsIfaceToggle(nm)
    \/ \E nm \in IfNames : OsIfstatsToggle(nm)
    \/ \E d \in RouteAnswers : LikelyUplink(d)

SpecNet == InitNet /\ [][NextNet]_vars

-----------------------------------------------------------------------------
(* Properties of the network path, checked under SpecNet.                  *)

Sampled == npc \in {"sampled", "done"}
Ifaces == TheVal(net).ifaces
Sum(i) == RAdd(i.rx_bps, i.tx_bps)

\* The name is in the loopback exclusion set or starts with an excluded prefix.
NameExcluded(nm) ==
    \/ nm = <<"l", "o", "0">>
    \/ StartsWith(nm, <<"a", "w", "d", "l">>)
    \/ StartsWith(nm, <<"b", "r", "i", "d", "g", "e">>)
    \/ StartsWith(nm, <<"l", "l", "w">>)
    \/ StartsWith(nm, <<"a", "p">>)

\* The default-route probe named an interface of the list.
RouteHit == dr # None /\ \E k \in 1..Len(Ifaces) : Ifaces[k].name = TheVal(dr)

\* C1: whenever the default-route probe returns the name of an interface of
\* the ranked list, likely_uplink returns exactly that interface, whatever
\* its link state, its name and the traffic of the others.
C1_DefaultRouteWins ==
    (uplink_called /\ RouteHit) =>
        /\ uplink # None
        /\ TheVal(uplink).name = TheVal(dr)
        /\ \E k \in 1..Len(Ifaces) : Ifaces[k] = TheVal(uplink)

\* C1's case: the route names an interface that is down and excluded by name
\* or prefix while another interface carries strictly more traffic.
C1_Witness ==
    /\ uplink_called /\ RouteHit /\ uplink # None
    /\ TheVal(uplink).name = TheVal(dr)
    /\ ~TheVal(uplink).is_up
    /\ NameExcluded(TheVal(uplink).name)
    /\ \E k \in 1..Len(Ifaces) : RLess(Sum(TheVal(uplink)), Sum(Ifaces[k]))

\* The positions of the list that hold a candidate.
CandidatePositions == {k \in 1..Len(Ifaces) : Ifaces[k].is_up /\ ~NameExcluded(Ifaces[k].name)}

\* C2: when the probe returns no name or a name that is not in the list, the
\* result is None if there is no candidate, and otherwise the first candidate
\* of the list whose rx_bps + tx_bps is maximal among the candidates.
C2_FallbackBusiestCandidate ==
    (uplink_called /\ ~RouteHit) =>
        IF CandidatePositions = {} THEN uplink = None
        ELSE /\ uplink # None
             /\ \E k \in CandidatePositions :
                   /\ Ifaces[k] = TheVal(uplink)
                   /\ \A m \in CandidatePositions :
                         /\ RLeq(Sum(Ifaces[m]), Sum(Ifaces[k]))
                         /\ REq(Sum(Ifaces[m]), Sum(Ifaces[k])) => k <= m

\* C2's case: the probe names an interface that is not in the list, two
\* candidates tie for the maximum and a non-candidate is busier than both.
C2_Witness ==
    /\ uplink_called /\ dr # None /\ ~RouteHit /\ uplink # None
    /\ \E k, m \in CandidatePositions :
          /\ k < m
          /\ Ifaces[k] = TheVal(uplink)
          /\ REq(Sum(Ifaces[k]), Sum(Ifaces[m]))
    /\ \E j \in (1..Len(Ifaces)) \ CandidatePositions :
          RLess(Sum(TheVal(uplink)), Sum(Ifaces[j]))

RECURSIVE SumRx(_, _)
\* The sum of rx_bps over the entries of l whose name is in `counted`.
SumRx(l, counted) ==
    IF l = <<>> THEN RZero
    ELSE IF Head(l).name \in counted
         THEN RAdd(Head(l).rx_bps, SumRx(Tail(l), counted))
         ELSE SumRx(Tail(l), counted)

RECURSIVE SumTx(_, _)
\* The sum of tx_bps over the entries of l whose name is in `counted`.
SumTx(l, counted) ==
    IF l = <<>> THEN RZero
    ELSE IF Head(l).name \in counted
         THEN RAdd(Head(l).tx_bps, SumTx(Tail(l), counted))
         ELSE SumTx(Tail(l), counted)

\* The interfaces whose link is up when the second counter reading is taken
\* (the OS changes nothing after it).
UpAtSecondReading == {nm \in DOMAIN os_link : os_link[nm]}
\* The interfaces whose link was up in the interface-stats reading, which is
\* taken with the first counter reading, before the sampling wait.
UpAtFirstReading == {nm \in DOMAIN ifstats : ifstats[nm]}

\* C3 as stated: the totals are the sums over the output interfaces whose
\* link is up at the second counter reading.
C3_TotalsByLinkAtSecondReading ==
    Sampled =>
        /\ REq(TheVal(net).total_rx_bps, SumRx(Ifaces, UpAtSecondReading))
        /\ REq(TheVal(net).total_tx_bps, SumTx(Ifaces, UpAtSecondReading))

\* C3 amended: the totals are the sums over the output interfaces whose link
\* was up in the interface-stats reading taken with the first counter
\* reading (an interface missing from that reading counts as down); is_up
\* reports that same state, and a down interface is in the list all the same.
C3_TotalsByLinkAtFirstReading ==
    Sampled =>
        /\ REq(TheVal(net).total_rx_bps, SumRx(Ifaces, UpAtFirstReading))
        /\ REq(TheVal(net).total_tx_bps, SumTx(Ifaces, UpAtFirstReading))
        /\ \A k \in 1..Len(Ifaces) : Ifaces[k].is_up <=> Ifaces[k].name \in UpAtFirstReading
        /\ \A nm \in (DOMAIN stats1 \cap DOMAIN stats2) \ UpAtFirstReading :
              \E k \in 1..Len(Ifaces) : Ifaces[k].name = nm /\ ~Ifaces[k].is_up

\* C3's case: an interface with a nonzero rate whose link changed between
\* the two readings.
C3_Witness ==
    /\ Sampled
    /\ \E k \in 1..Len(Ifaces) :
          /\ Ifaces[k].rx_bps.n # 0
          /\ (Ifaces[k].name \in UpAtFirstReading) # (Ifaces[k].name \in UpAtSecondReading)

\* C4: the list holds exactly one entry for every name of both readings and
\* none for any other name; each rate is the counter difference divided by
\* sample_seconds, or by 0.1 when the argument was <= 0, negative or not.
C4_RatesOfCommonInterfaces ==
    Sampled =>
        LET s    == IF TheVal(req_seconds) <= 0 THEN 1 ELSE TheVal(req_seconds)
            both == DOMAIN stats1 \cap DOMAIN stats2
        IN /\ {Ifaces[k].name : k \in 1..Len(Ifaces)} = both
           /\ Len(Ifaces) = Cardinality(both)
           /\ TheVal(net).sample_seconds = s
           /\ \A k \in 1..Len(Ifaces) :
                 LET nm == Ifaces[k].name IN
                 /\ Ifaces[k].rx_bps.d > 0 /\ Ifaces[k].tx_bps.d > 0
                 /\ Ifaces[k].rx_bps.n * s
                       = 10 * (stats2[nm].recv - stats1[nm].recv) * Ifaces[k].rx_bps.d
                 /\ Ifaces[k].tx_bps.n * s
                       = 10 * (stats2[nm].sent - stats1[nm].sent) * Ifaces[k].tx_bps.d

\* C4's case: sample_seconds <= 0 was passed, one interface is in the first
\* reading only, another in the second only or reset, giving a negative rate.
C4_Witness ==
    /\ Sampled
    /\ TheVal(req_seconds) <= 0
    /\ DOMAIN stats1 \ DOMAIN stats2 # {}
    /\ \E k \in 1..Len(Ifaces) : Ifaces[k].rx_bps.n < 0 /\ Ifaces[k].tx_bps.n < 0

\* C5: adjacent entries a, b of the list: a is up or b is down; with equal
\* is_up, a's traffic is not below b's; with equal traffic too, a.name < b.name.
C5_ThreeKeyOrder ==
    Sampled =>
        \A k \in 1..(Len(Ifaces) - 1) :
            LET a == Ifaces[k]
                b == Ifaces[k + 1]
            IN /\ a.is_up \/ ~b.is_up
               /\ (a.is_up = b.is_up) => RLeq(Sum(b), Sum(a))
               /\ (a.is_up = b.is_up /\ REq(Sum(a), Sum(b))) => StrLess(a.name, b.name)

\* C5's case: a list where each of the three keys decides one adjacent pair.
C5_Witness ==
    /\ Sampled
    /\ \E k \in 1..(Len(Ifaces) - 1) : Ifaces[k].is_up /\ ~Ifaces[k + 1].is_up
    /\ \E k \in 1..(Len(Ifaces) - 1) :
          Ifaces[k].is_up = Ifaces[k + 1].is_up /\ RLess(Sum(Ifaces[k + 1]), Sum(Ifaces[k]))
    /\ \E k \in 1..(Len(Ifaces) - 1) :
          Ifaces[k].is_up = Ifaces[k + 1].is_up /\ REq(Sum(Ifaces[k + 1]), Sum(Ifaces[k]))

-----------------------------------------------------------------------------
(* collectors.py: fmt_uptime, fmt_bytes; network.py: fmt_rate              *)

\* Elapsed times up to MaxDays days and byte values up to 1024^MaxExp.
MaxDays == 2
MaxExp == 6

\* time.time() - boot_time_unix, in tenths of a second (a float in the code).
UptimeInputs ==
    {(((dd * 24 + hh) * 60 + mm) * 60 + ss) * 10 + f :
        dd \in 0..MaxDays, hh \in {0, 1, 23}, mm \in {0, 1, 59}, ss \in {0, 1, 59},
        f \in {0, 9}}

\* A byte count or rate m * 1024^e.
Mantissas == {0, 1, 2, 512, 1023, 1024, 1536, 2047}
ValueInputs == [m : Mantissas, e : 0..MaxExp]

\* An f-string field "{n}{u}" of fmt_uptime's result.
Field(n, u) == [n |-> n, u |-> u]

\* fmt_uptime, given time.time() - boot_time_unix in tenths of a second
fmt_uptime(elapsed_tenths) ==
    LET seconds == elapsed_tenths \div 10
        days    == seconds \div 86400
        rem1    == seconds % 86400
        hours   == rem1 \div 3600
        rem2    == rem1 % 3600
        mins    == rem2 \div 60
        secs    == rem2 % 60
    IN IF days > 0 THEN <<Field(days, "d"), Field(hours, "h"), Field(mins, "m")>>
       ELSE IF hours > 0 THEN <<Field(hours, "h"), Field(mins, "m")>>
       ELSE <<Field(mins, "m"), Field(secs, "s")>>

RECURSIVE Pow1024(_)
Pow1024(k) == IF k = 0 THEN 1 ELSE 1024 * Pow1024(k - 1)

\* x > 1024 in place of x >= 1024
GT1024(x) ==
    IF x.e >= 1 THEN x.m > 1 \/ (x.m = 1 /\ x.e > 1)
    ELSE x.e >= -2 /\ x.m > Pow1024(1 - x.e)

\* x >= 1024 for x = m * 1024^e (m below 2^31, so never when e < -2)
GE1024(x) ==
    IF x.e >= 1 THEN x.m >= 1
    ELSE x.e >= -2 /\ x.m >= Pow1024(1 - x.e)

RECURSIVE ScaleLoop(_, _, _)
\* while x >= 1024 and i < len(units) - 1: x /= 1024.0; i += 1
ScaleLoop(x, i, len) ==
    IF GE1024(x) /\ i < len - 1
    THEN ScaleLoop([m |-> x.m, e |-> x.e - 1], i + 1, len)
    ELSE [x |-> x, i |-> i]

bytes_units == <<"B", "KB", "MB", "GB", "TB", "PB">>
rate_units == <<"B/s", "KB/s", "MB/s", "GB/s">>

\* The formatted text "<x to `decimals` places> <unit>", with the number of
\* divisions by 1024 that led to x.
Formatted(r, units) ==
    [x         |-> r.x,
     decimals  |-> IF r.i = 0 THEN 0 ELSE 2,
     unit      |-> units[r.i + 1],
     divisions |-> r.i]

fmt_bytes(n) == Formatted(ScaleLoop(n, 0, Len(bytes_units)), bytes_units)

fmt_rate(bps) == Formatted(ScaleLoop(bps, 0, Len(rate_units)), rate_units)

FmtUptime ==
    /\ fmt_arg # None /\ TheVal(fmt_arg).kind = "elapsed"
    /\ out_uptime = None
    /\ out_uptime' = Some(fmt_uptime(TheVal(fmt_arg).elapsed))
    /\ UNCHANGED <<fmt_arg, out_bytes, out_rate, nonFmtVars>>

FmtBytes ==
    /\ fmt_arg # None /\ TheVal(fmt_arg).kind = "value"
    /\ out_bytes = None
    /\ out_bytes' = Some(fmt_bytes(TheVal(fmt_arg).value))
    /\ UNCHANGED <<fmt_arg, out_uptime, out_rate, nonFmtVars>>

FmtRate ==
    /\ fmt_arg # None /\ TheVal(fmt_arg).kind = "value"
    /\ out_rate = None
    /\ out_rate' = Some(fmt_rate(TheVal(fmt_arg).value))
    /\ UNCHANGED <<fmt_arg, out_uptime, out_bytes, nonFmtVars>>

InitFmt ==
    /\ NetAt("off")
    /\ HealthOff
    /\ MainOff
    /\ SnapOff
    /\ fmt_arg \in {Some([kind |-> "elapsed", elapsed |-> el]) : el \in UptimeInputs}
              \cup {Some([kind |-> "value", value |-> v]) : v \in ValueInputs}
    /\ out_uptime = None
    /\ out_bytes = None
    /\ out_rate = None

NextFmt ==
    \/ FmtUptime
    \/ FmtBytes
    \/ FmtRate

SpecFmt == InitFmt /\ [][NextFmt]_vars

-----------------------------------------------------------------------------
(* Properties of the formatters, checked under SpecFmt.                    *)

\* C6: for every elapsed time >= 0, fmt_uptime shows exactly two units:
\* days and hours when days > 0, hours and minutes when days = 0 and
\* hours > 0, minutes and seconds otherwise.
C6_UptimeTwoUnits ==
    out_uptime # None =>
        LET seconds == TheVal(fmt_arg).elapsed \div 10
            days    == seconds \div 86400
            hours   == (seconds % 86400) \div 3600
            mins    == (seconds % 3600) \div 60
            secs    == seconds % 60
            out     == TheVal(out_uptime)
        IN /\ Len(out) = 2
           /\ out = IF days > 0 THEN <<[n |-> days, u |-> "d"], [n |-> hours, u |-> "h"]>>
                    ELSE IF hours > 0 THEN <<[n |-> hours, u |-> "h"], [n |-> mins, u |-> "m"]>>
                    ELSE <<[n |-> mins, u |-> "m"], [n |-> secs, u |-> "s"]>>

\* The unit of fmt_bytes with "/s" appended.
PerSecond(u) ==
    CASE u = "B" -> "B/s" [] u = "KB" -> "KB/s" [] u = "MB" -> "MB/s"
      [] u = "GB" -> "GB/s" [] u = "TB" -> "TB/s" [] u = "PB" -> "PB/s"

BothFormatted == out_bytes # None /\ out_rate # None

\* Base unit with zero decimals, every other unit with two.
DecimalsByUnit(o, base) == o.decimals = IF o.unit = base THEN 0 ELSE 2

\* C8 as stated: for every non-negative value fmt_rate divides by 1024 as
\* often as fmt_bytes and names the same unit with "/s" appended; the base
\* unit has zero decimals and every other unit two.
C8_RateScalesLikeBytes ==
    BothFormatted =>
        /\ TheVal(out_rate).divisions = TheVal(out_bytes).divisions
        /\ TheVal(out_rate).unit = PerSecond(TheVal(out_bytes).unit)
        /\ DecimalsByUnit(TheVal(out_bytes), "B")
        /\ DecimalsByUnit(TheVal(out_rate), "B/s")

\* floor(log_1024(v)) for v = m * 1024^e >= 1 with m < 1024^2, and 0 for v = 0
Magnitude(v) == IF v.m = 0 THEN 0 ELSE v.e + (IF v.m >= 1024 THEN 1 ELSE 0)
Least(a, b) == IF a < b THEN a ELSE b

\* C8 amended: below 1024^4 fmt_rate divides as often as fmt_bytes and names
\* the same unit with "/s" appended; from 1024^4 on fmt_rate stays at GB/s
\* after three divisions while fmt_bytes goes on to TB and PB (five
\* divisions at most); the base unit has zero decimals, every other unit two.
C8_RateScalesLikeBytesUpToGB ==
    BothFormatted =>
        LET v == TheVal(fmt_arg).value
            b == TheVal(out_bytes)
            r == TheVal(out_rate)
        IN /\ b.divisions = Least(Magnitude(v), 5)
           /\ r.divisions = Least(Magnitude(v), 3)
           /\ b.unit = <<"B", "KB", "MB", "GB", "TB", "PB">>[b.divisions + 1]
           /\ Magnitude(v) < 4 => r.unit = PerSecond(b.unit)
           /\ Magnitude(v) >= 4 => r.unit = "GB/s" /\ b.unit \in {"TB", "PB"}
           /\ DecimalsByUnit(b, "B")
           /\ DecimalsByUnit(r, "B/s")

\* C8's case: a value of 1024^4 or more has been formatted both ways, and so
\* has (in another run) a value that both scale alike.
C8_Witness ==
    /\ BothFormatted
    /\ Magnitude(TheVal(fmt_arg).value) >= 4
    /\ TheVal(out_bytes).unit = "TB"
    /\ TheVal(out_rate).unit = "GB/s"

-----------------------------------------------------------------------------
(* analysis.py: normalize_load, cpu_health_label; main.py: build_snapshot  *)

\* The largest logical CPU count tried.
MaxCpus == 4

\* psutil.cpu_percent, in tenths of a percent
PercentInputs == {0, 599, 600, 849, 850, 949, 950, 1000}
\* os.getloadavg()[0] in hundredths, or None where load averages are missing
LoadInputs ==
    {None} \cup {Some(Rat(x, 100)) :
        x \in {0, 59, 60, 89, 90, 109, 110, 119, 120, 180, 220, 240, 360, 440, 900}}
\* host.cpu_count_logical
CpuCounts == 0..MaxCpus

normalize_load(load_1m, logical_cpus) ==
    IF load_1m = None THEN None
    ELSE IF logical_cpus <= 0 THEN None
    ELSE Some(Rat(TheVal(load_1m).n, TheVal(load_1m).d * logical_cpus))

\* cpu_health_label with <= in place of the first <
cpu_health_label_inclusive(cpu_percent, load_frac_1m) ==
    IF load_frac_1m # None
    THEN LET f == TheVal(load_frac_1m) IN
         IF RLeq(f, Rat(60, 100)) THEN "OK"
         ELSE IF RLess(f, Rat(90, 100)) THEN "BUSY"
         ELSE IF RLess(f, Rat(110, 100)) THEN "SATURATED"
         ELSE "OVERLOADED"
    ELSE IF cpu_percent <= 600 THEN "OK"
         ELSE IF cpu_percent < 850 THEN "BUSY"
         ELSE IF cpu_percent < 950 THEN "SATURATED"
         ELSE "OVERLOADED"

\* cpu_percent is in tenths of a percent
cpu_health_label(cpu_percent, load_frac_1m) ==
    IF load_frac_1m # None
    THEN LET f == TheVal(load_frac_1m) IN
         IF RLess(f, Rat(60, 100)) THEN "OK"
         ELSE IF RLess(f, Rat(90, 100)) THEN "BUSY"
         ELSE IF RLess(f, Rat(110, 100)) THEN "SATURATED"
         ELSE "OVERLOADED"
    ELSE IF cpu_percent < 600 THEN "OK"
         ELSE IF cpu_percent < 850 THEN "BUSY"
         ELSE IF cpu_percent < 950 THEN "SATURATED"
         ELSE "OVERLOADED"

\* build_snapshot: load_norm = normalize_load(cpu.loadavg_1m, host.cpu_count_logical)
\*                 health = cpu_health_label(cpu.percent, load_norm)
BuildHealth ==
    /\ cpu_in # None
    /\ cpu_health = None
    /\ LET c         == TheVal(cpu_in)
           load_norm == normalize_load(c.loadavg_1m, c.cpu_count_logical)
       IN /\ load_norm_1m' = load_norm
          /\ cpu_health' = Some(cpu_health_label(c.percent, load_norm))
    /\ UNCHANGED <<cpu_in, nonHealthVars>>

InitHealth ==
    /\ NetAt("off")
    /\ FmtOff
    /\ MainOff
    /\ SnapOff
    /\ \E p \in PercentInputs, l \in LoadInputs, k \in CpuCounts :
          cpu_in = Some([percent |-> p, loadavg_1m |-> l, cpu_count_logical |-> k])
    /\ load_norm_1m = None
    /\ cpu_health = None

NextHealth ==
    \/ BuildHealth

SpecHealth == InitHealth /\ [][NextHealth]_vars

-----------------------------------------------------------------------------
(* Properties of the health classifier, checked under SpecHealth.          *)

Rank(band) ==
    CASE band = "OK" -> 0 [] band = "BUSY" -> 1
      [] band = "SATURATED" -> 2 [] band = "OVERLOADED" -> 3

\* The band of a load fraction f = n/d: OK below 0.60, BUSY below 0.90,
\* SATURATED below 1.10, else OVERLOADED.
BandOfLoad(f) ==
    IF 100 * f.n < 60 * f.d THEN "OK"
    ELSE IF 100 * f.n < 90 * f.d THEN "BUSY"
    ELSE IF 100 * f.n < 110 * f.d THEN "SATURATED"
    ELSE "OVERLOADED"

\* The band of a CPU percentage p (in tenths): OK below 60.0, BUSY below
\* 85.0, SATURATED below 95.0, else OVERLOADED.
BandOfPercent(p) ==
    IF p < 600 THEN "OK"
    ELSE IF p < 850 THEN "BUSY"
    ELSE IF p < 950 THEN "SATURATED"
    ELSE "OVERLOADED"

\* Every load fraction the inputs can produce.
LoadFractions ==
    {TheVal(normalize_load(l, k)) : l \in LoadInputs \ {None}, k \in 1..MaxCpus}

\* C7: with a load fraction present the band is the load band whatever the
\* CPU percent; without one it is the CPU-percent band; a value equal to a
\* threshold is in the higher band; the band never decreases as the
\* deciding input grows.
C7_HealthBands ==
    cpu_health # None =>
        LET c == TheVal(cpu_in)
            h == TheVal(cpu_health)
        IN IF load_norm_1m # None
           THEN /\ h = BandOfLoad(TheVal(load_norm_1m))
                /\ \A p \in PercentInputs : cpu_health_label(p, load_norm_1m) = h
                /\ \A g \in LoadFractions :
                      RLeq(TheVal(load_norm_1m), g)
                          => Rank(h) <= Rank(cpu_health_label(c.percent, Some(g)))
           ELSE /\ h = BandOfPercent(c.percent)
                /\ \A q \in PercentInputs :
                      c.percent <= q => Rank(h) <= Rank(cpu_health_label(q, None))

\* C7's case: the load fraction is exactly 0.60 (1.20 on two CPUs), which is
\* BUSY, while the CPU percent alone would say OVERLOADED.
C7_Witness ==
    /\ cpu_health = Some("BUSY")
    /\ load_norm_1m # None
    /\ REq(TheVal(load_norm_1m), Rat(60, 100))
    /\ TheVal(cpu_in).cpu_count_logical = 2
    /\ TheVal(cpu_in).percent >= 950

-----------------------------------------------------------------------------
(* main.py: main, the refresh loop.  One tick is half a second.            *)

\* How many cycles the loop is followed for, and how many ticks the probes
\* of one build can take beyond its two fixed sampling waits.
MaxCycles == 2
MaxExtra == 1

\* --interval arguments tried: negative, zero (print once), and live ones
IntervalChoices == {-2, 0, 1, 3, 6}

\* max(0.0, x)
Max0(x) == IF x < 0 THEN 0 ELSE x

\* The positions of main that belong to the refresh loop.
LoopPositions == {"top", "build", "clear", "render", "elapsed", "sleep"}

\* A try block that covers only the sleep.
InTrySleepOnly == {"sleep"}

\* The positions the try block of main covers: the whole while loop.
InTry == {"top", "build", "clear", "render", "elapsed", "sleep"}

\* The argument of time.sleep without the max.
SleepDurationRaw(iv, el) == iv - el

\* max(0.0, interval - elapsed)
SleepDuration(iv, el) == Max0(iv - el)

\* What one build_snapshot(live_interval) can take: collect_cpu waits 0.5 s,
\* collect_network_rates 0.5 s in live mode and 1.5 s otherwise, and the
\* probes take the rest.
BuildTimes(live_interval) ==
    {1 + (IF live_interval > 0 THEN 1 ELSE 3) + extra : extra \in 0..MaxExtra}

\* while True: t0 = time.time(), then build_snapshot is entered
LoopTop ==
    /\ pc = "top"
    /\ cycle.begun < MaxCycles
    /\ t0' = now
    /\ prev' = IF cycle.begun = 0 THEN None
               ELSE Some([t0 |-> t0, built_at |-> TheVal(stamps.built_at),
                          rendered_at |-> TheVal(stamps.rendered_at)])
    /\ stamps' = NoStamps
    /\ elapsed' = None
    /\ sleep_for' = None
    /\ cycle' = [cycle EXCEPT !.begun = @ + 1]
    /\ pc' = "build"
    /\ UNCHANGED <<now, args_interval, interval, no_clear, apfs_ok, interrupted_at,
                   notice, exit_code, nonMainVars>>

\* snap = build_snapshot(interval) returns after d ticks; the branch on
\* interval > 0 and not args.no_clear follows
BuildReturn(d, apfs) ==
    /\ pc = "build"
    /\ d \in BuildTimes(interval)
    /\ now' = now + d
    /\ apfs_ok' = apfs
    /\ stamps' = [stamps EXCEPT !.built_at = Some(now + d)]
    /\ IF interval > 0 /\ ~no_clear
       THEN /\ pc' = "clear"
            /\ cycle' = [cycle EXCEPT !.built = @ + 1]
       ELSE /\ pc' = "render"
            /\ cycle' = [cycle EXCEPT !.built = @ + 1, !.render_begun = @ + 1]
    /\ UNCHANGED <<args_interval, interval, no_clear, t0, elapsed, sleep_for,
                   interrupted_at, notice, exit_code, prev, nonMainVars>>

\* os.system("clear"), then render_snapshot is entered
Clear ==
    /\ pc = "clear"
    /\ pc' = "render"
    /\ cycle' = [cycle EXCEPT !.render_begun = @ + 1]
    /\ UNCHANGED <<now, args_interval, interval, no_clear, t0, elapsed, sleep_for,
                   apfs_ok, interrupted_at, notice, exit_code, stamps, prev,
                   nonMainVars>>

\* render_snapshot(snap) returns after d ticks, then `if interval <= 0: break`
\* ends main with status 0.  With apfs totals present render_snapshot reads
\* apfs.container, which ApfsSpace does not have: the AttributeError is not
\* caught and ends the process with status 1.
Render(d) ==
    /\ pc = "render"
    /\ now' = now + d
    /\ IF apfs_ok
       THEN /\ pc' = "exited"
            /\ exit_code' = Some(1)
            /\ UNCHANGED <<cycle, stamps>>
       ELSE /\ cycle' = [cycle EXCEPT !.rendered = @ + 1]
            /\ stamps' = [stamps EXCEPT !.rendered_at = Some(now + d)]
            /\ IF interval <= 0
               THEN pc' = "exited" /\ exit_code' = Some(0)
               ELSE pc' = "elapsed" /\ UNCHANGED exit_code
    /\ UNCHANGED <<args_interval, interval, no_clear, t0, elapsed, sleep_for,
                   apfs_ok, interrupted_at, notice, prev, nonMainVars>>

\* elapsed = time.time() - t0; time.sleep(max(0.0, interval - elapsed)) is entered
ComputeSleep ==
    /\ pc = "elapsed"
    /\ elapsed' = Some(now - t0)
    /\ sleep_for' = Some(SleepDuration(interval, now - t0))
    /\ cycle' = [cycle EXCEPT !.sleeps = @ + 1]
    /\ pc' = "sleep"
    /\ UNCHANGED <<now, args_interval, interval, no_clear, t0, apfs_ok,
                   interrupted_at, notice, exit_code, stamps, prev, nonMainVars>>

\* time.sleep returns: not before the requested time, possibly `over` later
SleepReturn(over) ==
    /\ pc = "sleep"
    /\ now' = now + TheVal(sleep_for) + over
    /\ pc' = "top"
    /\ UNCHANGED <<args_interval, interval, no_clear, t0, elapsed, sleep_for,
                   apfs_ok, interrupted_at, notice, exit_code, cycle, stamps, prev,
                   nonMainVars>>

\* The user interrupts once: KeyboardInterrupt is raised where main is.  Inside
\* the try block the except clause is entered; anywhere else the exception
\* ends the process with a traceback.
Interrupt ==
    /\ pc \in LoopPositions
    /\ interrupted_at = None
    /\ interrupted_at' = Some(pc)
    /\ IF pc \in InTry
       THEN pc' = "handler" /\ UNCHANGED exit_code
       ELSE pc' = "exited" /\ exit_code' = Some(1)
    /\ UNCHANGED <<now, args_interval, interval, no_clear, t0, elapsed, sleep_for,
                   apfs_ok, notice, cycle, stamps, prev, nonMainVars>>

\* except KeyboardInterrupt: print("\nExiting.")
HandlerPrint ==
    /\ pc = "handler"
    /\ notice' = TRUE
    /\ pc' = "handler_exit"
    /\ UNCHANGED <<now, args_interval, interval, no_clear, t0, elapsed, sleep_for,
                   apfs_ok, interrupted_at, exit_code, cycle, stamps, prev,
                   nonMainVars>>

\* sys.exit(0)
HandlerExit ==
    /\ pc = "handler_exit"
    /\ exit_code' = Some(0)
    /\ pc' = "exited"
    /\ UNCHANGED <<now, args_interval, interval, no_clear, t0, elapsed, sleep_for,
                   apfs_ok, interrupted_at, notice, cycle, stamps, prev, nonMainVars>>

\* main after argument parsing and interval = max(0.0, args.interval)
Init ==
    /\ NetAt("off")
    /\ FmtOff
    /\ HealthOff
    /\ SnapOff
    /\ pc = "top"
    /\ now = 0
    /\ args_interval \in IntervalChoices
    /\ interval = Max0(args_interval)
    /\ no_clear \in BOOLEAN
    /\ t0 = 0
    /\ elapsed = None
    /\ sleep_for = None
    /\ apfs_ok = FALSE
    /\ interrupted_at = None
    /\ notice = FALSE
    /\ exit_code = None
    /\ cycle = NoCycle
    /\ stamps = NoStamps
    /\ prev = None

Next ==
    \/ LoopTop
    \/ \E d \in BuildTimes(interval), apfs \in BOOLEAN : BuildReturn(d, apfs)
    \/ Clear
    \/ \E d \in 0..1 : Render(d)
    \/ ComputeSleep
    \/ \E over \in 0..1 : SleepReturn(over)
    \/ Interrupt
    \/ HandlerPrint
    \/ HandlerExit

Spec == Init /\ [][Next]_vars

\* The interpreter goes on executing the except clause once it is entered.
FairSpec == Spec /\ WF_vars(HandlerPrint) /\ WF_vars(HandlerExit)

-----------------------------------------------------------------------------
(* Properties of the refresh loop, checked under Spec and FairSpec.        *)

Interrupted == interrupted_at # None

\* C9: a KeyboardInterrupt raised at any position of the refresh loop leads
\* to the notice being printed and then to exit status 0, and once it is
\* raised no snapshot build or render is begun or finished any more.
C9_InterruptExitsZero ==
    /\ [][Interrupted => cycle' = cycle]_vars
    /\ [](Interrupted /\ exit_code # None => notice /\ exit_code = Some(0))
    /\ [](Interrupted /\ notice => pc \in {"handler_exit", "exited"})
    /\ (Interrupted ~> (pc = "exited" /\ notice /\ exit_code = Some(0)))

\* C9's case: the interrupt came during the build of the second cycle and the
\* process has exited with the notice printed.
C9_Witness ==
    /\ interrupted_at = Some("build")
    /\ cycle.begun = 2
    /\ pc = "exited"
    /\ notice
    /\ exit_code = Some(0)

Live == pc # "off" /\ interval > 0

\* C10: with interval > 0, in every cycle the build finishes before the
\* render begins and the render before the sleep is computed; the sleep is
\* max(0, interval - elapsed) and never negative; a cycle begins at least
\* the interval, and at least the build time, after the previous one began,
\* and not before the previous render has finished.
C10_CycleTiming ==
    Live =>
        /\ cycle.render_begun <= cycle.built
        /\ cycle.built <= cycle.begun
        /\ cycle.sleeps <= cycle.rendered
        /\ cycle.begun <= cycle.rendered + 1
        /\ sleep_for # None =>
              /\ stamps.built_at # None /\ stamps.rendered_at # None
              /\ t0 <= TheVal(stamps.built_at)
              /\ TheVal(stamps.built_at) <= TheVal(stamps.rendered_at)
              /\ TheVal(elapsed) = TheVal(stamps.rendered_at) - t0
              /\ TheVal(sleep_for) >= 0
              /\ TheVal(sleep_for) =
                    (IF args_interval - TheVal(elapsed) > 0
                     THEN args_interval - TheVal(elapsed) ELSE 0)
        /\ prev # None =>
              /\ t0 - TheVal(prev).t0 >= args_interval
              /\ t0 - TheVal(prev).t0 >= TheVal(prev).built_at - TheVal(prev).t0
              /\ t0 >= TheVal(prev).rendered_at

\* C10's case: a second cycle has begun after a first one whose build alone
\* took longer than the interval, so that nothing was slept.
C10_Witness ==
    /\ Live
    /\ pc = "build"
    /\ prev # None
    /\ TheVal(prev).built_at - TheVal(prev).t0 > interval
    /\ t0 - TheVal(prev).t0 > interval

-----------------------------------------------------------------------------
\* Unavailable metrics: what build_snapshot keeps and render_snapshot prints
\* when a collaborator has no value to give.  A field holding the value x is
\* written Some(x) and a field holding Python's None is written None, so that
\* "absent" and "zero" are different values of every field.

\* os.getloadavg(): the three averages, or None where it raises
LoadAvgAnswers ==
    {None,
     Some([la1 |-> Rat(50, 100), la5 |-> Rat(40, 100), la15 |-> Rat(30, 100)]),
     Some([la1 |-> Rat(300, 100), la5 |-> Rat(200, 100), la15 |-> Rat(100, 100)])}
\* psutil.cpu_count(logical=True)
PsutilLogicalAnswers == {None, Some(2), Some(4)}
\* os.cpu_count()
OsCpuCountAnswers == {None, Some(4)}
\* psutil.cpu_count(logical=False)
PhysicalAnswers == {None, Some(2)}
\* psutil.cpu_percent, in tenths of a percent
SnapPercents == {100, 900}
\* _run_vm_stat(): None, or a VmStat whose pageouts is None where the output
\* of vm_stat has no "Pageouts" line
VmStatAnswers ==
    {None} \cup {Some([pageouts |-> po]) : po \in {None, Some(0), Some(7)}}
\* psutil.net_if_stats() as far as en0 goes: no entry, or its isup flag
IfStatsAnswers == {<<>>} \cup {(en0 :> b) : b \in BOOLEAN}

\* Python's "a or b": a if a is truthy (present and not zero), else b
Or(a, b) == IF a # None /\ TheVal(a) # 0 THEN a ELSE b

\* collect_host_os: psutil.cpu_count(logical=True) or os.cpu_count() or 0
cpu_count_logical(psutil_logical, os_cpu_count) ==
    Or(Or(psutil_logical, os_cpu_count), Some(0))

\* collect_cpu: la1 = la5 = la15 = None where os.getloadavg() raises
collect_cpu(pct, loadavg) ==
    [percent    |-> pct,
     loadavg_1m  |-> IF loadavg = None THEN None ELSE Some(TheVal(loadavg).la1),
     loadavg_5m  |-> IF loadavg = None THEN None ELSE Some(TheVal(loadavg).la5),
     loadavg_15m |-> IF loadavg = None THEN None ELSE Some(TheVal(loadavg).la15)]

smt_status(logical, physical) ==
    IF physical = None \/ TheVal(physical) <= 0 \/ logical <= 0 THEN "unknown"
    ELSE IF logical > TheVal(physical) THEN "on"
    ELSE IF logical = TheVal(physical) THEN "off"
    ELSE "unknown"

\* render_snapshot: po = vs.pageouts if vs.pageouts is not None else 0
PageoutsPrinted(vs) ==
    IF vs.pageouts # None THEN vs.pageouts ELSE Some(0)

\* build_snapshot, as far as the values that may be unavailable go: the host
\* and cpu collectors, the values derived from them, vm_stat, and the link
\* state collect_network_rates gives en0.
BuildSnapshot ==
    /\ probes # None
    /\ snap = None
    /\ LET p         == TheVal(probes)
           logical   == cpu_count_logical(p.psutil_logical, p.os_cpu_count)
           cpu       == collect_cpu(p.percent, p.loadavg)
           load_norm == normalize_load(cpu.loadavg_1m, TheVal(logical))
       IN snap' = Some(
            [cpu_count_logical  |-> logical,
             cpu_count_physical |-> p.physical,
             percent            |-> cpu.percent,
             loadavg_1m         |-> cpu.loadavg_1m,
             loadavg_5m         |-> cpu.loadavg_5m,
             loadavg_15m        |-> cpu.loadavg_15m,
             smt                |-> smt_status(TheVal(logical), p.physical),
             load_norm_1m       |-> load_norm,
             cpu_health         |-> cpu_health_label(cpu.percent, load_norm),
             vm_stat            |-> p.vm_stat,
             is_up              |-> Some(IsUp(p.ifstats, en0))])
    /\ UNCHANGED <<probes, shown, nonSnapVars>>

\* render_snapshot up to the vm_stat line: the first CPU line, the second CPU
\* line with or without the load averages, and the vm_stat line where vm_stat
\* answered.  A part that is not printed is None.
RenderSnapshot ==
    /\ snap # None
    /\ shown = None
    /\ LET s == TheVal(snap)
           with_load == s.loadavg_1m # None /\ s.load_norm_1m # None
       IN shown' = Some(
            [physical     |-> s.cpu_count_physical,
             logical      |-> s.cpu_count_logical,
             smt          |-> s.smt,
             loadavg      |-> IF with_load
                              THEN Some(<<TheVal(s.loadavg_1m),
                                          TheVal(s.loadavg_5m),
                                          TheVal(s.loadavg_15m)>>)
                              ELSE None,
             load_norm    |-> IF with_load THEN s.load_norm_1m ELSE None,
             health       |-> s.cpu_health,
             vm_stat_line |-> s.vm_stat # None,
             pageouts     |-> IF s.vm_stat # None
                              THEN PageoutsPrinted(TheVal(s.vm_stat))
                              ELSE None])
    /\ UNCHANGED <<probes, snap, nonSnapVars>>

InitSnap ==
    /\ NetAt("off")
    /\ FmtOff
    /\ HealthOff
    /\ MainOff
    /\ \E l \in LoadAvgAnswers, pl \in PsutilLogicalAnswers,
          oc \in OsCpuCountAnswers, ph \in PhysicalAnswers,
          pct \in SnapPercents, vs \in VmStatAnswers, st \in IfStatsAnswers :
          probes = Some([loadavg |-> l, psutil_logical |-> pl,
                         os_cpu_count |-> oc, physical |-> ph,
                         percent |-> pct, vm_stat |-> vs, ifstats |-> st])
    /\ snap = None
    /\ shown = None

NextSnap ==
    \/ BuildSnapshot
    \/ RenderSnapshot

SpecSnap == InitSnap /\ [][NextSnap]_vars

\* The collaborators' answers that are absent.
NoLoadAvg == TheVal(probes).loadavg = None
NoLogicalCount ==
    TheVal(probes).psutil_logical = None /\ TheVal(probes).os_cpu_count = None
NoPageouts ==
    /\ TheVal(probes).vm_stat # None
    /\ TheVal(TheVal(probes).vm_stat).pageouts = None
NoLinkState == en0 \notin DOMAIN TheVal(probes).ifstats

\* C11: a value no collaborator could supply is absent in the snapshot (the
\* load averages and the load fraction derived from them, the logical CPU
\* count, the pageouts of vm_stat, the link state of an interface with no
\* interface-stats entry) and absent in what the renderer prints of it; no
\* step puts zero, False or another default in its place.
C11_AbsentStaysAbsent ==
    /\ snap # None =>
          LET s == TheVal(snap) IN
          /\ NoLoadAvg =>
                /\ s.loadavg_1m = None /\ s.loadavg_5m = None
                /\ s.loadavg_15m = None /\ s.load_norm_1m = None
          /\ NoLogicalCount =>
                /\ s.cpu_count_logical = None
                /\ s.load_norm_1m = None
                /\ s.smt = "unknown"
          /\ NoPageouts => TheVal(s.vm_stat).pageouts = None
          /\ NoLinkState => s.is_up = None
    /\ shown # None =>
          LET r == TheVal(shown) IN
          /\ NoLoadAvg => r.loadavg = None /\ r.load_norm = None
          /\ NoLogicalCount => r.logical = None
          /\ NoPageouts => r.pageouts = None

=============================================================================
